---- MODULE Spec2Model ----
(***************************************************************************)
(* A model of ammonite's SimpleUpgrader (src/ammonite/SimpleUpgrader.py).  *)
(*                                                                         *)
(* The database handle is the connection/cursor pair the runner is given:  *)
(* every statement executed through the cursor changes the connection's    *)
(* working state, commit() makes the working state the committed state     *)
(* and rollback() restores the working state from the committed state.     *)
(* The script store is a directory tree: a mapping from directory names    *)
(* to the files they hold.  File and directory names are sequences of      *)
(* one-character strings so that sorting, splitting and integer parsing    *)
(* are computed on the characters, as Python computes them.                *)
(***************************************************************************)
EXTENDS Integers, Sequences, FiniteSets, TLC

(***************************************************************************)
(* Characters and strings                                                  *)
(***************************************************************************)

\* The characters used by the model's file names, in ascending byte order.
Alphabet ==
    << "\n", " ", "-", ".", "0", "1", "2", "3", "4", "5", "6", "7", "8", "9",
       "_", "a", "b", "c", "d", "e", "f", "g", "i", "l", "m", "n", "p", "q",
       "r", "s", "t", "x" >>

Ord(c) == CHOOSE i \in 1..Len(Alphabet) : Alphabet[i] = c

Digits == << "0", "1", "2", "3", "4", "5", "6", "7", "8", "9" >>

IsDigit(c) == \E i \in 1..Len(Digits) : Digits[i] = c

DigitVal(c) == (CHOOSE i \in 1..Len(Digits) : Digits[i] = c) - 1

Whitespace == { "\n", " " }

FILE_MANIFEST == << "_", "m", "a", "n", "i", "f", "e", "s", "t" >>

SCRIPT_EXT == << ".", "s", "q", "l" >>

\* Python's comparison of two byte strings (the order list.sort() uses).
StrLess(a, b) ==
    LET n    == IF Len(a) < Len(b) THEN Len(a) ELSE Len(b)
        diff == { i \in 1..n : a[i] # b[i] }
    IN  IF diff = {}
        THEN Len(a) < Len(b)
        ELSE LET i == CHOOSE j \in diff : \A k \in diff : j <= k
             IN  Ord(a[i]) < Ord(b[i])

\* str(version) for a non-negative integer: decimal digits, no padding.
RECURSIVE str(_)
str(n) ==
    IF n < 10 THEN << Digits[n + 1] >>
              ELSE str(n \div 10) \o << Digits[(n % 10) + 1] >>

\* int(s) succeeds: an optional minus sign followed by one or more digits.
IntParses(s) ==
    LET body == IF Len(s) > 0 /\ s[1] = "-" THEN Tail(s) ELSE s
    IN  /\ Len(body) > 0
        /\ \A i \in 1..Len(body) : IsDigit(body[i])

RECURSIVE DigitsValue(_)
DigitsValue(s) ==
    IF s = << >> THEN 0
    ELSE 10 * DigitsValue(SubSeq(s, 1, Len(s) - 1)) + DigitVal(s[Len(s)])

\* int(s), defined where IntParses(s).
int(s) ==
    IF Len(s) > 0 /\ s[1] = "-" THEN 0 - DigitsValue(Tail(s))
                                 ELSE DigitsValue(s)

\* line.rstrip(): the line without its trailing whitespace.
RECURSIVE rstrip(_)
rstrip(s) ==
    IF s # << >> /\ s[Len(s)] \in Whitespace
    THEN rstrip(SubSeq(s, 1, Len(s) - 1))
    ELSE s

\* x[:x.rfind('.')]: the name up to its last dot; rfind is -1 when there is
\* none, and the slice then drops the last character.
StripExt(x) ==
    LET dots == { i \in 1..Len(x) : x[i] = "." }
    IN  IF dots = {}
        THEN SubSeq(x, 1, Len(x) - 1)
        ELSE SubSeq(x, 1, (CHOOSE i \in dots : \A j \in dots : j <= i) - 1)

\* filename.split('-')[0], and whether split('-') gives more than one part.
HasHyphen(filename) == \E i \in 1..Len(filename) : filename[i] = "-"

FirstPart(filename) ==
    LET hy == { i \in 1..Len(filename) : filename[i] = "-" }
    IN  SubSeq(filename, 1, (CHOOSE i \in hy : \A j \in hy : i <= j) - 1)

InSeq(x, s) == \E i \in 1..Len(s) : s[i] = x

(***************************************************************************)
(* The script store                                                        *)
(***************************************************************************)

\* A version directory: what os.listdir() returns for it, in the order it
\* returns it, and the lines of its _manifest file (read only when the
\* listing holds a _manifest).
Dir(listing, manifest) == [listing |-> listing, manifest |-> manifest]

\* test/upgrades_basic/1: the single script 1-init.sql.
DirBasic ==
    Dir(<< << "1", "-", "i", "n", "i", "t", ".", "s", "q", "l" >> >>, << >>)

\* Two numbered scripts, listed by the file system in either order.
Script10Create ==
    << "1", "0", "-", "c", "r", "e", "a", "t", "e", ".", "s", "q", "l" >>

Script2Seed == << "2", "-", "s", "e", "e", "d", ".", "s", "q", "l" >>

DirNumbered == Dir(<< Script10Create, Script2Seed >>, << >>)

DirNumberedRev == Dir(<< Script2Seed, Script10Create >>, << >>)

\* A manifest listing b, a, c next to the scripts a.sql, b.sql, c.sql.
DirManifest ==
    Dir(<< FILE_MANIFEST,
           << "a", ".", "s", "q", "l" >>,
           << "b", ".", "s", "q", "l" >>,
           << "c", ".", "s", "q", "l" >> >>,
        << << "b", "\n" >>, << "a", "\n" >>, << "c", "\n" >> >>)

\* A script whose prefix is the integer 0.
DirZeroPrefix ==
    Dir(<< << "0", "-", "i", "n", "i", "t", ".", "s", "q", "l" >> >>, << >>)

\* test/packages/missing-prefix: the token before the hyphen is no number.
DirMissingPrefix ==
    Dir(<< << "m", "i", "s", "s", "i", "n", "g", "-",
              "p", "r", "e", "f", "i", "x", ".", "s", "q", "l" >> >>, << >>)

\* A script name without any hyphen.
DirNoHyphen == Dir(<< << "i", "n", "i", "t", ".", "s", "q", "l" >> >>, << >>)

\* A script name that starts with the hyphen: the prefix is empty.
DirEmptyPrefix ==
    Dir(<< << "-", "i", "n", "i", "t", ".", "s", "q", "l" >> >>, << >>)

\* A manifest that lists a script the directory does not hold.
DirManifestMissingScript ==
    Dir(<< FILE_MANIFEST, << "a", ".", "s", "q", "l" >> >>,
        << << "a", "\n" >>, << "b", "\n" >> >>)

Fixtures ==
    << DirBasic, DirNumbered, DirManifest, DirNumberedRev, DirZeroPrefix,
       DirMissingPrefix, DirNoHyphen, DirEmptyPrefix, DirManifestMissingScript >>

(***************************************************************************)
(* Loading an upgrade                                                      *)
(***************************************************************************)

NoError == "none"

Raise(e) == [raised |-> e, value |-> << >>]

Return(v) == [raised |-> NoError, value |-> v]

\* load_upgrade_script: the SQL text of <script_name>.sql in the directory.
\* The text is opaque to the runner; it is modelled by the path of the file
\* it was read from.  open() fails with errno 2 when the file is absent.
load_upgrade_script(store, version_dir, script_name) ==
    LET script == script_name \o SCRIPT_EXT
    IN  IF InSeq(script, store[version_dir].listing)
        THEN Return(<< version_dir, script >>)
        ELSE Raise("IOError")

\* A variant of load_upgrade_components that puts each tuple in front of the
\* components loaded so far: the upgrade comes out in reverse manifest order.
RECURSIVE load_upgrade_components_reversed(_, _, _)
load_upgrade_components_reversed(store, upgrade_path, manifest) ==
    IF manifest = << >> THEN Return(<< >>)
    ELSE LET script_name == rstrip(Head(manifest))
             sql  == load_upgrade_script(store, upgrade_path, script_name)
             rest == load_upgrade_components_reversed(store, upgrade_path, Tail(manifest))
         IN  IF sql.raised # NoError THEN sql
             ELSE IF rest.raised # NoError THEN rest
             ELSE Return(rest.value \o << << script_name, sql.value >> >>)

\* load_upgrade_components: one (script_name, SQL) tuple per manifest line,
\* in the order of the lines.
RECURSIVE load_upgrade_components(_, _, _)
load_upgrade_components(store, upgrade_path, manifest) ==
    IF manifest = << >> THEN Return(<< >>)
    ELSE LET script_name == rstrip(Head(manifest))
             sql  == load_upgrade_script(store, upgrade_path, script_name)
             rest == load_upgrade_components(store, upgrade_path, Tail(manifest))
         IN  IF sql.raised # NoError THEN sql
             ELSE IF rest.raised # NoError THEN rest
             ELSE Return(<< << script_name, sql.value >> >> \o rest.value)

\* script_prefix: the sort key of a file name, or the exception it raises.
script_prefix(filename) ==
    IF HasHyphen(filename) /\ IntParses(FirstPart(filename))
    THEN Return(int(FirstPart(filename)) > 0)
    ELSE Raise("invalid prefix")

\* scripts.sort(key=script_prefix): a stable sort on the keys; the keys are
\* booleans, and False sorts before True.
SortByPrefix(scripts) ==
    SelectSeq(scripts, LAMBDA f : script_prefix(f).value = FALSE)
        \o SelectSeq(scripts, LAMBDA f : script_prefix(f).value = TRUE)

\* scripts_from_manifestfile: open the _manifest and load what it lists.
scripts_from_manifestfile(store, version_dir) ==
    IF version_dir \in DOMAIN store
       /\ InSeq(FILE_MANIFEST, store[version_dir].listing)
    THEN load_upgrade_components(store, version_dir, store[version_dir].manifest)
    ELSE Raise("IOError")

\* scripts_from_upgradedir: list the directory, sort by prefix, strip the
\* extensions and load the scripts.
scripts_from_upgradedir(store, version_dir) ==
    IF version_dir \notin DOMAIN store THEN Raise("OSError")
    ELSE LET scripts == store[version_dir].listing
         IN  IF \E i \in 1..Len(scripts) : script_prefix(scripts[i]).raised # NoError
             THEN Raise("invalid prefix")
             ELSE LET sorted == SortByPrefix(scripts)
                      names  == [i \in 1..Len(sorted) |-> StripExt(sorted[i])]
                  IN  load_upgrade_components(store, version_dir, names)

\* load_upgrade: the manifest's scripts, or the numbered scripts of the
\* directory when opening the manifest (or a script it lists) fails with
\* "no such file".
load_upgrade(store, version) ==
    LET version_dir == str(version)
        listed == scripts_from_manifestfile(store, version_dir)
    IN  IF listed.raised = "IOError"
        THEN scripts_from_upgradedir(store, version_dir)
        ELSE listed

\* get_available_upgrades: the directory names under the scripts root,
\* sorted as strings.
get_available_upgrades(store) ==
    LET names == DOMAIN store
    IN  [i \in 1..Cardinality(names) |->
            CHOOSE x \in names :
                Cardinality({ y \in names : StrLess(y, x) }) = i - 1]

\* A variant of get_latest_upgrade_version that takes a last name that is not
\* an integer for "no upgrades".
get_latest_upgrade_version_lenient(store) ==
    LET versions == get_available_upgrades(store)
    IN  IF Len(versions) > 0 /\ IntParses(versions[Len(versions)])
        THEN Return(int(versions[Len(versions)]))
        ELSE Return(0)

\* get_latest_upgrade_version: int() of the last name of the sorted list.
get_latest_upgrade_version(store) ==
    LET versions == get_available_upgrades(store)
    IN  IF Len(versions) > 0
        THEN IF IntParses(versions[Len(versions)])
             THEN Return(int(versions[Len(versions)]))
             ELSE Raise("ValueError")
        ELSE Return(0)

(***************************************************************************)
(* Bounds and inputs                                                       *)
(***************************************************************************)

\* The largest number of version directories of a uniform store.
MaxVersion == 10

\* The largest number of version directories of a mixed store.
MaxMixed == 3

\* The number of perform_upgrade() calls of one behaviour.
MaxRuns == 2

\* The number of times the contents of the scripts root change between calls.
MaxDeploys == 1

\* Version directories 1..N (unpadded names), each like upgrades_basic/1.
UniformStore(N) == [d \in { str(v) : v \in 1..N } |-> DirBasic]

\* Version directories 1..N, version v holding the fixture at position
\* v + off of the cyclic list of fixtures.
MixedStore(N, off) ==
    [d \in { str(v) : v \in 1..N } |->
        Fixtures[((int(d) - 1 + off) % Len(Fixtures)) + 1]]

\* Names of directories under the scripts root that are no version numbers:
\* "tmp" sorts after every number, ".d" before every number.
StrayNames == { << "t", "m", "p" >>, << ".", "d" >> }

\* Version directories 1..N and one stray directory next to them.
StrayStore(N, name) ==
    [d \in { str(v) : v \in 1..N } \cup { name } |-> DirBasic]

Stores ==
    { UniformStore(N) : N \in 0..MaxVersion }
        \cup { MixedStore(N, off) : N \in 1..MaxMixed, off \in 0..(Len(Fixtures) - 1) }
        \cup { StrayStore(N, name) : N \in 0..MaxMixed, name \in StrayNames }

(***************************************************************************)
(* The database handle                                                     *)
(***************************************************************************)

\* A database state: whether the changelog table exists, the ids of its
\* rows in insertion order, and the upgrade SQL executed so far, in order.
FreshDatabase == [table |-> FALSE, rows |-> << >>, log |-> << >>]

\* What cursor.execute() of the changelog INSERT may do: insert the row and
\* report one row; insert nothing and report no row; insert the row while
\* the driver cannot tell the count (-1).
InsertOutcomes ==
    { [inserted |-> TRUE,  rowcount |-> 1],
      [inserted |-> FALSE, rowcount |-> 0],
      [inserted |-> TRUE,  rowcount |-> -1] }

RECURSIVE MaxId(_)
MaxId(rows) ==
    IF Len(rows) = 1 THEN rows[1]
    ELSE LET m == MaxId(Tail(rows))
         IN  IF rows[1] > m THEN rows[1] ELSE m

\* A variant of get_active_version that takes the NULL maximum of an empty
\* table for a missing table.
get_active_version_null_is_absent(db) ==
    IF ~db.table \/ db.rows = << >> THEN -1
    ELSE MaxId(db.rows)

\* get_active_version: SELECT MAX(id) on the connection's working state.
get_active_version(db) ==
    IF ~db.table THEN -1
    ELSE IF db.rows = << >> THEN 0
    ELSE MaxId(db.rows)

(***************************************************************************)
(* State                                                                   *)
(***************************************************************************)

VARIABLES
    store,            \* the directory tree under self.directory
    committed,        \* the database state as of the last commit
    working,          \* the database state the connection sees
    rowcount,         \* cursor.rowcount after the changelog INSERT
    pc,               \* the position of perform_upgrade(), "idle" outside a call
    active_version,   \* locals of perform_upgrade()
    upgrade_version,
    xrange_next,      \* the next value of xrange(active_version, upgrade_version)
    version,          \* 0 stands for None
    upgrade,          \* the loaded upgrade tuples
    k,                \* the position of apply_upgrade() in upgrade
    e,                \* the exception raised in the call, NoError if none
    ret,              \* << status >> once perform_upgrade() has returned, else << >>
    observed,         \* << v >> after a get_active_version() call by the caller
    runs,             \* the number of perform_upgrade() calls so far
    deploys           \* the number of changes of the scripts root so far

vars ==
    << store, committed, working, rowcount, pc, active_version, upgrade_version,
       xrange_next, version, upgrade, k, e, ret, observed, runs, deploys >>

locals == << active_version, upgrade_version, xrange_next, version, upgrade, k >>

Init ==
    /\ store \in Stores
    /\ committed = FreshDatabase
    /\ working = FreshDatabase
    /\ rowcount = -1
    /\ pc = "idle"
    /\ active_version = 0
    /\ upgrade_version = 0
    /\ xrange_next = 0
    /\ version = 0
    /\ upgrade = << >>
    /\ k = 1
    /\ e = NoError
    /\ ret = << >>
    /\ observed = << >>
    /\ runs = 0
    /\ deploys = 0

(***************************************************************************)
(* perform_upgrade                                                         *)
(***************************************************************************)

\* Lines 144-149: read the active and the latest version.  int() of the
\* last directory name may raise; the exception leaves perform_upgrade().
PerformUpgrade ==
    /\ pc = "idle"
    /\ runs < MaxRuns
    /\ runs' = runs + 1
    /\ LET latest == get_latest_upgrade_version(store)
       IN  /\ active_version' = get_active_version(working)
           /\ IF latest.raised # NoError
              THEN /\ e' = latest.raised
                   /\ pc' = "idle"
                   /\ UNCHANGED upgrade_version
              ELSE /\ e' = NoError
                   /\ pc' = "init"
                   /\ upgrade_version' = latest.value
    /\ version' = 0
    /\ upgrade' = << >>
    /\ k' = 1
    /\ ret' = << >>
    /\ observed' = << >>
    /\ UNCHANGED << store, committed, working, rowcount, xrange_next, deploys >>

\* Lines 155-158: the changelog table is created when the active version
\* is -1; the statement runs on the connection and nothing commits it here.
CreateVersionTable ==
    /\ pc = "init"
    /\ active_version = -1
    /\ working' = [working EXCEPT !.table = TRUE]
    /\ active_version' = 0
    /\ UNCHANGED << store, committed, rowcount, pc, upgrade_version, xrange_next,
                    version, upgrade, k, e, ret, observed, runs, deploys >>

\* A variant of NoUpgrades that rolls the connection back before returning.
NoUpgrades_rollback ==
    /\ pc = "init"
    /\ active_version # -1
    /\ active_version - upgrade_version = 0
    /\ working' = committed
    /\ ret' = << 0 >>
    /\ pc' = "idle"
    /\ UNCHANGED << store, committed, rowcount, locals, e, observed, runs, deploys >>

\* Lines 166-168: nothing to apply.
NoUpgrades ==
    /\ pc = "init"
    /\ active_version # -1
    /\ active_version - upgrade_version = 0
    /\ ret' = << 0 >>
    /\ pc' = "idle"
    /\ UNCHANGED << store, committed, working, rowcount, locals, e, observed, runs, deploys >>

\* Lines 170-172: enter the loop over xrange(active_version, upgrade_version).
StartLoop ==
    /\ pc = "init"
    /\ active_version # -1
    /\ active_version - upgrade_version # 0
    /\ xrange_next' = active_version
    /\ pc' = "for"
    /\ UNCHANGED << store, committed, working, rowcount, active_version,
                    upgrade_version, version, upgrade, k, e, ret, observed, runs, deploys >>

\* A variant of NextVersion that counts in the direction of the latest
\* version until it reaches it, also downwards.
NextVersion_toward_latest ==
    /\ pc = "for"
    /\ xrange_next # upgrade_version
    /\ version' = xrange_next + 1
    /\ xrange_next' = xrange_next + 1
    /\ pc' = "load"
    /\ UNCHANGED << store, committed, working, rowcount, active_version,
                    upgrade_version, upgrade, k, e, ret, observed, runs, deploys >>

\* Lines 172-175: the next value of the range, plus one.
NextVersion ==
    /\ pc = "for"
    /\ xrange_next < upgrade_version
    /\ version' = xrange_next + 1
    /\ xrange_next' = xrange_next + 1
    /\ pc' = "load"
    /\ UNCHANGED << store, committed, working, rowcount, active_version,
                    upgrade_version, upgrade, k, e, ret, observed, runs, deploys >>

\* Line 197: the range is exhausted.
LoopDone ==
    /\ pc = "for"
    /\ xrange_next >= upgrade_version
    /\ ret' = << 0 >>
    /\ pc' = "idle"
    /\ UNCHANGED << store, committed, working, rowcount, locals, e, observed, runs, deploys >>

\* Line 177: load the upgrade of the version.
LoadUpgrade ==
    /\ pc = "load"
    /\ LET loaded == load_upgrade(store, version)
       IN  IF loaded.raised # NoError
           THEN /\ e' = loaded.raised
                /\ pc' = "except"
                /\ UNCHANGED << upgrade, k >>
           ELSE /\ upgrade' = loaded.value
                /\ k' = 1
                /\ pc' = "apply"
                /\ UNCHANGED e
    /\ UNCHANGED << store, committed, working, rowcount, active_version,
                    upgrade_version, xrange_next, version, ret, observed, runs, deploys >>

\* Lines 47-53 (apply_upgrade, called at line 181): execute the SQL of the
\* next tuple; the statement takes effect or raises an execution error.
ApplyStatement ==
    /\ pc = "apply"
    /\ k <= Len(upgrade)
    /\ \E ok \in BOOLEAN :
          IF ok
          THEN /\ working' = [working EXCEPT !.log = Append(@, upgrade[k][2])]
               /\ k' = k + 1
               /\ UNCHANGED << pc, e >>
          ELSE /\ e' = "OperationalError"
               /\ pc' = "except"
               /\ UNCHANGED << working, k >>
    /\ UNCHANGED << store, committed, rowcount, active_version, upgrade_version,
                    xrange_next, version, upgrade, ret, observed, runs, deploys >>

\* A variant of CreateVersionRecord that may record the version before the
\* statements of its upgrade have all been executed.
CreateVersionRecord_early ==
    /\ pc = "apply"
    /\ \E outcome \in InsertOutcomes :
          /\ working' = IF outcome.inserted
                        THEN [working EXCEPT !.rows = Append(@, version)]
                        ELSE working
          /\ rowcount' = outcome.rowcount
    /\ pc' = "commit"
    /\ UNCHANGED << store, committed, locals, e, ret, observed, runs, deploys >>

\* Lines 55-57 (create_version_record, called at line 184).
CreateVersionRecord ==
    /\ pc = "apply"
    /\ k > Len(upgrade)
    /\ \E outcome \in InsertOutcomes :
          /\ working' = IF outcome.inserted
                        THEN [working EXCEPT !.rows = Append(@, version)]
                        ELSE working
          /\ rowcount' = outcome.rowcount
    /\ pc' = "commit"
    /\ UNCHANGED << store, committed, locals, e, ret, observed, runs, deploys >>

\* Line 186: connection.commit().
Commit ==
    /\ pc = "commit"
    /\ committed' = working
    /\ pc' = "verify"
    /\ UNCHANGED << store, working, rowcount, locals, e, ret, observed, runs, deploys >>

\* A variant of VerifyRecord that goes on to the next version whatever the
\* row count of the INSERT.
VerifyRecord_unchecked ==
    /\ pc = "verify"
    /\ pc' = "for"
    /\ UNCHANGED << store, committed, working, rowcount, locals, e, ret, observed, runs, deploys >>

\* Lines 188-191: the row count of the INSERT is checked after the commit.
VerifyRecord ==
    /\ pc = "verify"
    /\ IF rowcount # 1
       THEN /\ e' = "could not record the upgrade"
            /\ pc' = "except"
       ELSE /\ pc' = "for"
            /\ UNCHANGED e
    /\ UNCHANGED << store, committed, working, rowcount, locals, ret, observed, runs, deploys >>

\* A variant of Except that rolls back and tries the failed version again.
Except_retry ==
    /\ pc = "except"
    /\ working' = committed
    /\ pc' = "load"
    /\ UNCHANGED << store, committed, rowcount, locals, e, ret, observed, runs, deploys >>

\* A variant of Except that rolls back and goes on with the next version.
Except_continue ==
    /\ pc = "except"
    /\ working' = committed
    /\ pc' = "for"
    /\ UNCHANGED << store, committed, rowcount, locals, e, ret, observed, runs, deploys >>

\* Lines 192-195: roll back and return 1.
Except ==
    /\ pc = "except"
    /\ working' = committed
    /\ ret' = << 1 >>
    /\ pc' = "idle"
    /\ UNCHANGED << store, committed, rowcount, locals, e, observed, runs, deploys >>

(***************************************************************************)
(* get_active_version, called by the user of the upgrader                  *)
(***************************************************************************)

\* Lines 64-81.
GetActiveVersion ==
    /\ pc = "idle"
    /\ observed' = << get_active_version(working) >>
    /\ UNCHANGED << store, committed, working, rowcount, pc, locals, e, ret, runs, deploys >>

(***************************************************************************)
(* The environment                                                         *)
(***************************************************************************)

\* Between two calls one version directory is added to or removed from the
\* scripts root (a release, or its withdrawal); the directories that stay
\* keep their contents.
Deploy ==
    /\ pc = "idle"
    /\ runs > 0
    /\ deploys < MaxDeploys
    /\ deploys' = deploys + 1
    /\ store' \in Stores \ { store }
    /\ \/ \E d \in DOMAIN store' : DOMAIN store = DOMAIN store' \ { d }
       \/ \E d \in DOMAIN store : DOMAIN store' = DOMAIN store \ { d }
    /\ \A d \in DOMAIN store \cap DOMAIN store' : store'[d] = store[d]
    /\ UNCHANGED << committed, working, rowcount, pc, locals, e, ret, observed, runs >>

Next ==
    \/ PerformUpgrade
    \/ CreateVersionTable
    \/ NoUpgrades
    \/ StartLoop
    \/ NextVersion
    \/ LoopDone
    \/ LoadUpgrade
    \/ ApplyStatement
    \/ CreateVersionRecord
    \/ Commit
    \/ VerifyRecord
    \/ Except
    \/ GetActiveVersion
    \/ Deploy

Spec == Init /\ [][Next]_vars

\* The steps of a perform_upgrade() call that has started.
RunStep ==
    \/ CreateVersionTable
    \/ NoUpgrades
    \/ StartLoop
    \/ NextVersion
    \/ LoopDone
    \/ LoadUpgrade
    \/ ApplyStatement
    \/ CreateVersionRecord
    \/ Commit
    \/ VerifyRecord
    \/ Except

(***************************************************************************)
(* Properties                                                              *)
(***************************************************************************)

\* perform_upgrade() has returned the status and no call is in progress.
Returned(status) == pc = "idle" /\ ret = << status >>

\* The first perform_upgrade() call on the fresh database is over and the
\* scripts root is as that call found it.
AfterFirstRun == pc = "idle" /\ runs = 1 /\ deploys = 0

\* The scripts root holds exactly the version directories 1..N, unpadded.
VersionsPresent(N) == DOMAIN store = { str(v) : v \in 1..N }

\* The ids 1..n in ascending order.
Ids(n) == [i \in 1..n |-> i]

\* The positions of the database's log that hold SQL of the version.
SqlOf(db, v) == { i \in 1..Len(db.log) : db.log[i][1] = str(v) }

HasManifest(v) ==
    str(v) \in DOMAIN store /\ InSeq(FILE_MANIFEST, store[str(v)].listing)

\* C1: starting from a fresh database with directories for the versions 1..N,
\* a perform_upgrade() call that returns 0 leaves the active version at N
\* and the changelog with exactly the ids 1..N, for every N (N >= 10 with
\* unpadded directory names included); and the call returns 1 only when
\* something raised.
C1_FreshUpgradeReachesN ==
    (AfterFirstRun /\ VersionsPresent(Cardinality(DOMAIN store))) =>
        /\ ret = << 0 >> =>
              LET N == Cardinality(DOMAIN store)
              IN  /\ get_active_version(working) = N
                  /\ working.rows = Ids(N)
                  /\ committed.rows = Ids(N)
        /\ ret = << 1 >> => e # NoError

\* C2: when a statement of version v raised an execution error, then after
\* the run the active version is v - 1, the changelog has no record for v
\* but one for every version below v, and nothing the connection sees
\* differs from the committed state (what v executed is undone).
C2_FailedStatementLeavesPreviousVersion ==
    (Returned(1) /\ e = "OperationalError") =>
        /\ working = committed
        /\ get_active_version(working) = version - 1
        /\ ~InSeq(version, committed.rows)
        /\ \A u \in 1..(version - 1) : InSeq(u, committed.rows)

\* C3: when the changelog insert for version v reported a row count other
\* than 1, perform_upgrade() returns 1 and the committed state holds neither
\* SQL of version v nor a changelog record for v, and the active version is
\* still v - 1.
C3_RecordNotPersistedRollsBack ==
    (pc = "idle" /\ e = "could not record the upgrade") =>
        /\ ret = << 1 >>
        /\ working = committed
        /\ SqlOf(committed, version) = {}
        /\ ~InSeq(version, committed.rows)
        /\ get_active_version(working) = version - 1

\* C4: between perform_upgrade() calls, a committed changelog table holds
\* exactly one row for every version whose SQL is part of the committed
\* state, its ids are 1..N without gaps or duplicates, and N, its row
\* count, is the active version.
C4_ChangelogInvariant ==
    (pc = "idle" /\ committed.table) =>
        /\ committed.rows = Ids(Len(committed.rows))
        /\ Len(committed.rows) = get_active_version(committed)
        /\ \A i \in 1..Len(committed.log) :
              Cardinality({ j \in 1..Len(committed.rows) :
                              str(committed.rows[j]) = committed.log[i][1] }) = 1

\* C6: once perform_upgrade() has returned from its first call on a fresh
\* database, whatever it returned, get_active_version() is not -1; and with
\* no upgrade directories the call returned 0 and get_active_version() is 0.
C6_TableExistsAfterFirstRun ==
    (AfterFirstRun /\ ret # << >>) =>
        /\ get_active_version(working) # -1
        /\ DOMAIN store = {} =>
              (ret = << 0 >> /\ get_active_version(working) = 0)

\* C8: the upgrade loaded from a directory without a manifest lists the
\* scripts in ascending order of the integer before their first hyphen.
C8_DirectoryScanOrdering ==
    (pc = "apply" /\ ~HasManifest(version)) =>
        \A i, j \in 1..Len(upgrade) :
            i < j => int(FirstPart(upgrade[i][1])) <= int(FirstPart(upgrade[j][1]))

\* C10: an upgrade is loaded from a directory without a manifest only if
\* every file name in it has a hyphen and an integer greater than 0 before
\* the first hyphen; otherwise the load fails and no statement of the
\* version is executed.
C10_InvalidPrefixFailsLoad ==
    (pc \in { "apply", "commit", "verify" } /\ ~HasManifest(version)) =>
        \A i \in 1..Len(store[str(version)].listing) :
            LET f == store[str(version)].listing[i]
            IN  /\ HasHyphen(f)
                /\ IntParses(FirstPart(f))
                /\ int(FirstPart(f)) > 0

\* C5: a perform_upgrade() call made when the active version equals the
\* latest available version goes straight to "no upgrades": it loads and
\* executes nothing, inserts no record, leaves the database as it was and
\* returns 0; and a call that returns 0 leaves the active version equal to
\* the latest version (or above it, when it was above it before), so that
\* a second call right after it finds nothing to do.
C5_Idempotence ==
    [][ /\ ( /\ pc = "idle"
             /\ pc' # "idle"
             /\ get_latest_upgrade_version(store).raised = NoError
             /\ get_active_version(working) = get_latest_upgrade_version(store).value )
           => ( /\ pc' = "init"
                /\ active_version' = upgrade_version'
                /\ UNCHANGED << committed, working >> )
        /\ (pc = "init" /\ active_version = upgrade_version)
           => ( /\ pc' = "idle"
                /\ ret' = << 0 >>
                /\ UNCHANGED << committed, working, rowcount, upgrade, version, e >> )
        /\ (pc # "idle" /\ pc' = "idle" /\ ret' = << 0 >>)
           => \/ get_active_version(working') = get_latest_upgrade_version(store').value
              \/ (version = 0 /\ active_version > upgrade_version)
      ]_vars

\* C5 witness: the second call, right after a first call that applied
\* upgrades, has returned 0 without attempting any version.
C5_Witness ==
    /\ Returned(0)
    /\ runs = 2
    /\ deploys = 0
    /\ version = 0
    /\ upgrade = << >>
    /\ active_version = upgrade_version
    /\ active_version >= 2
    /\ working = committed
    /\ Len(committed.log) >= 2

\* C7: get_active_version() returns -1 exactly when the changelog table is
\* absent, 0 exactly when it exists and is empty, and otherwise the largest
\* id recorded; and the call changes neither the committed state nor the
\* connection's working state.
C7_GetActiveVersionReadOnly ==
    /\ [](observed # << >> =>
            LET v == observed[1]
            IN  /\ v >= -1
                /\ (v = -1) <=> ~working.table
                /\ (v = 0) <=> (working.table /\ working.rows = << >>)
                /\ v > 0 =>
                      /\ InSeq(v, working.rows)
                      /\ \A i \in 1..Len(working.rows) : working.rows[i] <= v)
    /\ [][observed' # << >> => UNCHANGED << committed, working >>]_vars

\* C7 witness: the call has returned the largest of several recorded ids.
C7_Witness ==
    /\ pc = "idle"
    /\ observed # << >>
    /\ observed[1] >= 2
    /\ Len(working.rows) = observed[1]

\* C9: the upgrade loaded for a version whose directory holds a _manifest
\* lists the scripts named by the manifest lines, in the order of the lines,
\* each with the SQL of its own file; and apply_upgrade has executed them
\* in that order.
C9_ManifestOrdering ==
    (pc = "apply" /\ HasManifest(version)) =>
        LET manifest == store[str(version)].manifest
            done     == k - 1
            n        == Len(working.log)
        IN  /\ Len(upgrade) = Len(manifest)
            /\ \A i \in 1..Len(manifest) :
                  /\ upgrade[i][1] = rstrip(manifest[i])
                  /\ upgrade[i][2] = << str(version), rstrip(manifest[i]) \o SCRIPT_EXT >>
            /\ done <= n
            /\ \A i \in 1..done : working.log[n - done + i] = upgrade[i][2]

\* C9 witness: the manifest lists b, a, c and all three have been executed,
\* b first and c last.
C9_Witness ==
    /\ pc = "apply"
    /\ HasManifest(version)
    /\ k = 4
    /\ [i \in 1..Len(upgrade) |-> upgrade[i][1]] = << << "b" >>, << "a" >>, << "c" >> >>
    /\ LET n == Len(working.log)
       IN  /\ n >= 3
           /\ working.log[n - 2][2] = << "b", ".", "s", "q", "l" >>
           /\ working.log[n - 1][2] = << "a", ".", "s", "q", "l" >>
           /\ working.log[n][2] = << "c", ".", "s", "q", "l" >>

\* C11: once loading, applying or recording a version has failed, the next
\* step of the run rolls back and returns 1 without executing or committing
\* anything; and when the run has returned 1, the database holds no SQL and
\* no changelog record of a version above the one that failed.
C11_NoSkipAndContinue ==
    /\ [][ (pc # "except" /\ pc' = "except") =>
              (e' # NoError /\ UNCHANGED << committed, working, version >>) ]_vars
    /\ [][ pc = "except" =>
              /\ pc' = "idle"
              /\ ret' = << 1 >>
              /\ working' = committed
              /\ UNCHANGED << committed, version, e >> ]_vars
    /\ [](Returned(1) =>
            /\ e # NoError
            /\ version >= 1
            /\ \A i \in 1..Len(working.log) : int(working.log[i][1]) <= version
            /\ \A i \in 1..Len(working.rows) : working.rows[i] <= version
            /\ working = committed)

\* C11 witness: the run failed at a version with later versions pending and
\* earlier ones committed in the same run.
C11_Witness ==
    /\ Returned(1)
    /\ runs = 1
    /\ version >= 2
    /\ version < upgrade_version
    /\ get_active_version(committed) = version - 1

\* C12: the perform_upgrade() call that follows a run that failed at version
\* v reads the active version from the database and finds v - 1 (or no
\* table, for v = 1), so that the first version it attempts is v, from the
\* first statement of v's upgrade; and when it returns 0 after attempting
\* versions, the active version is the latest available version.
C12_RetryFromScratch ==
    /\ [][ (pc = "idle" /\ ret = << 1 >> /\ pc' = "init") =>
              /\ active_version' = get_active_version(working)
              /\ (IF active_version' = -1 THEN 0 ELSE active_version') + 1 = version ]_vars
    /\ [][ (pc = "for" /\ pc' = "load" /\ version = 0) =>
              version' = active_version + 1 ]_vars
    /\ [][ (pc = "load" /\ pc' = "apply") => k' = 1 ]_vars
    /\ []((Returned(0) /\ version # 0) =>
            get_active_version(working) = upgrade_version)

\* C13: every change of the committed state is a commit of perform_upgrade()
\* that adds exactly the SQL of the upgrade of one version, in order, and
\* what that version's changelog insert did, and nothing else: also for the
\* first version after the changelog table was created.
C13_TransactionScope ==
    [][ committed' # committed =>
           /\ pc = "commit"
           /\ committed'.table = committed.table
           /\ committed'.log =
                 committed.log \o [i \in 1..Len(upgrade) |-> upgrade[i][2]]
           /\ committed'.rows \in { committed.rows, Append(committed.rows, version) }
      ]_vars

\* The SQL of the loaded upgrade, in order.
UnitSql == [i \in 1..Len(upgrade) |-> upgrade[i][2]]

\* The last n entries of the working log.
LogTail(n) == SubSeq(working.log, Len(working.log) - n + 1, Len(working.log))

\* C14: within a run the attempted version starts at active + 1, goes up
\* by one at every attempt and never exceeds the latest version, and a run
\* that ends the loop has attempted the latest version; the changelog insert
\* of a version is issued when every statement of its upgrade has been
\* executed, in order, and a commit happens only after that insert.
C14_StepOrdering ==
    /\ [][ (version' # version /\ version' # 0) =>
              /\ pc = "for" /\ pc' = "load"
              /\ version' = (IF version = 0 THEN active_version ELSE version) + 1
              /\ version' <= upgrade_version ]_vars
    /\ []((Returned(0) /\ version # 0) => version = upgrade_version)
    /\ [][ (working'.rows # working.rows \/ rowcount' # rowcount) =>
              /\ pc = "apply" /\ pc' = "commit"
              /\ k = Len(upgrade) + 1
              /\ Len(working.log) >= Len(upgrade)
              /\ LogTail(Len(upgrade)) = UnitSql ]_vars
    /\ [][ committed' # committed =>
              /\ pc = "commit"
              /\ k = Len(upgrade) + 1
              /\ LogTail(Len(upgrade)) = UnitSql
              /\ rowcount # 0 =>
                    /\ working.rows # << >>
                    /\ working.rows[Len(working.rows)] = version ]_vars

\* C14 witness: in one run from the fresh database the third version, an
\* upgrade of three statements, has been applied, recorded and committed.
C14_Witness ==
    /\ pc = "verify"
    /\ runs = 1
    /\ active_version = 0
    /\ version = 3
    /\ Len(upgrade) = 3
    /\ committed.rows = Ids(3)
    /\ LogTail(3) = UnitSql

\* The greatest integer among the directory names that are integers, 0 when
\* there is none.
NumericMax(names) ==
    LET values == { int(d) : d \in { x \in names : IntParses(x) } }
    IN  IF values = {} THEN 0
        ELSE CHOOSE m \in values : \A n \in values : n <= m

\* C15: the latest upgrade version a run works with, the value returned by
\* get_latest_upgrade_version(), is the numerically greatest version among
\* the directory names of the scripts root, and 0 when there are none.
C15_LatestIsNumericMaximum ==
    pc # "idle" => upgrade_version = NumericMax(DOMAIN store)

\* The positions of perform_upgrade() inside the loop over the versions.
Upgrading == pc \in { "load", "apply", "commit", "verify" }

Rank ==
    LET notEntered(from) == IF upgrade_version > from THEN upgrade_version - from ELSE 0
    IN  CASE pc = "idle"   -> << 0, 0, 0 >>
          [] pc = "except" -> << 0, 0, 1 >>
          [] pc = "init"   -> << notEntered(IF active_version = -1 THEN 0 ELSE active_version) + 1,
                                 IF active_version = -1 THEN 1 ELSE 0, 0 >>
          [] pc = "for"    -> << notEntered(xrange_next), 1, 0 >>
          [] pc = "verify" -> << notEntered(xrange_next), 2, 0 >>
          [] pc = "commit" -> << notEntered(xrange_next), 3, 0 >>
          [] pc = "apply"  -> << notEntered(xrange_next), 4, Len(upgrade) + 1 - k >>
          [] pc = "load"   -> << notEntered(xrange_next), 5, 0 >>

\* The lexicographic order on ranks.
RankLess(r, s) ==
    \/ r[1] < s[1]
    \/ r[1] = s[1] /\ r[2] < s[2]
    \/ r[1] = s[1] /\ r[2] = s[2] /\ r[3] < s[3]

LastNotInteger ==
    LET versions == get_available_upgrades(store)
    IN  Len(versions) > 0 /\ ~IntParses(versions[Len(versions)])

\* C17: when the last entry of the sorted listing is not an integer, the call
\* ends in its first step with the ValueError and no status, and that step
\* leaves the connection and the committed database as they were: no table
\* is created, no statement is executed, nothing is committed.
C17_InvalidDirectoryFailsBeforeChange ==
    /\ [][ (pc = "idle" /\ runs' = runs + 1 /\ LastNotInteger) =>
              /\ pc' = "idle"
              /\ e' = "ValueError"
              /\ ret' = << >>
              /\ UNCHANGED << committed, working, rowcount >> ]_vars
    /\ []((pc = "idle" /\ runs = 1 /\ LastNotInteger /\ deploys = 0) =>
              /\ e = "ValueError"
              /\ committed = FreshDatabase
              /\ working = FreshDatabase)

\* C17 witness: the first call on a scripts root whose last entry is "tmp"
\* has raised; the database is as it was created.
C17_Witness ==
    /\ pc = "idle"
    /\ runs = 1
    /\ deploys = 0
    /\ LastNotInteger
    /\ Cardinality(DOMAIN store) >= 2
    /\ e = "ValueError"
    /\ ret = << >>
    /\ working = FreshDatabase

\* C18: whenever a call has returned 0, every version from 1 to the latest
\* version read at its start has a committed changelog record, and
\* get_active_version() on the connection is at least that latest version.
C18_ZeroMeansNothingPending ==
    Returned(0) =>
        /\ \A v \in 1..upgrade_version : InSeq(v, committed.rows)
        /\ get_active_version(working) >= upgrade_version

\* C18 witness: a first call has upgraded a fresh database through three or
\* more versions and returned 0.
C18_Witness ==
    /\ Returned(0)
    /\ runs = 1
    /\ active_version = 0
    /\ upgrade_version >= 3
    /\ version = upgrade_version
    /\ get_active_version(committed) = upgrade_version

\* C19: a call that finds the active version above the latest available
\* version executes no statement, inserts no record, commits nothing and
\* rolls nothing back: each of its steps leaves the connection and the
\* committed database as they are, it ends with status 0 and no error, and
\* the active version is then what it was.
C19_AheadOfStoreIsNoOp ==
    /\ [][ (pc \in { "init", "for" } /\ active_version > upgrade_version) =>
              /\ UNCHANGED << committed, working, rowcount, upgrade, e >>
              /\ pc' \in { "for", "idle" }
              /\ pc' = "idle" => ret' = << 0 >> ]_vars
    /\ []((pc \notin { "idle", "init", "for" }) => active_version < upgrade_version)
    /\ []((Returned(0) /\ active_version > upgrade_version) =>
              /\ e = NoError
              /\ version = 0
              /\ get_active_version(working) = active_version)

\* C19 witness: after a version directory was withdrawn, a call found the
\* active version above the latest version and returned 0.
C19_Witness ==
    /\ Returned(0)
    /\ runs = 2
    /\ deploys = 1
    /\ upgrade_version >= 1
    /\ active_version > upgrade_version
    /\ get_active_version(committed) = active_version

====
